---- MODULE Spec2Model ----
(***************************************************************************)
(* Model of rpi_xc112/source/acc_service_data_logger.c: the command-line   *)
(* data logger for the XC112 radar services (power bins, envelope, IQ).    *)
(*                                                                         *)
(* One behaviour is one run of main(): option parsing, radar stack         *)
(* activation, the configuration builder, execute_<mode>() with its        *)
(* polling loop, and main's epilogue.  The SIGINT handler is an action     *)
(* that may fire between any two steps.  The radar service library, the    *)
(* C library and the operating system are the environment: every result    *)
(* they return is chosen nondeterministically.                             *)
(***************************************************************************)
EXTENDS Integers, Sequences, FiniteSets, TLC

\* ------------------------------------------------------------------ bounds
\* largest in-range value given to -c
MaxCount == 2
\* largest frame length the provider's metadata reports
MaxBins == 3

\* -------------------------------------------------------- program constants
DEFAULT_UPDATE_COUNT == 0
DEFAULT_WAIT_FOR_INTERRUPT == TRUE
DEFAULT_SENSOR == 1
\* -1.0f: "the stack default will be used"
DEFAULT_RUNNING_AVG == -1
\* update_count and updates are uint16_t
UINT16_MOD == 65536

INVALID_SERVICE == "INVALID_SERVICE"
POWER_BIN == "POWER_BIN"
ENVELOPE == "ENVELOPE"
IQ == "IQ"

EXIT_SUCCESS == "EXIT_SUCCESS"
EXIT_FAILURE == "EXIT_FAILURE"
\* abnormal termination by the allocator (glibc aborts on a detected double free)
ABORTED == "ABORTED"

\* ------------------------------------------------------------------ inputs
\* Polls an unbounded run may make before SIGINT arrives (the bounded runs of
\* the model all fit below it).
MaxPolls == MaxCount + 1

\* Arguments of -c.  atoi() gives an int; the values at and above 2^16 are
\* the ones the assignment to the uint16_t field changes.
CountArgs == (0..MaxCount) \cup {UINT16_MOD}

\* Arguments of -t: 0, 1, 2 select a service, anything else is rejected.
TypeArgs == 0..3

\* Arguments of -s: (0,4] is accepted.
SensorArgs == {0, 4}

\* Arguments of -r, whole numbers only: [0,1] is accepted.
RunningAvgArgs == {0, 2}

\* Frames the synthetic provider returns, by frame length.  uint16_t samples.
SampleFrames ==
  { <<0>>, <<65535>>,
    <<10, 7>>, <<305, 0>>,
    <<1, 2, 3>>, <<4, 5, 6>>,
    <<9, 80, 700, 6000>>, <<65535, 0, 10, 1>> }

Frames(n) == { f \in SampleFrames : Len(f) = n }

VARIABLES
  pc,                 \* position of main()
  parse_result,       \* how parse_options ended: "none" (not yet), "ok",
                      \*   "bad_type", "missing_type", "no_memory", "help",
                      \*   "out_of_range"
  service_type,       \* input.service_type
  update_count,       \* input.update_count (uint16_t)
  count_arg,          \* what atoi() returned for the last -c (-1: no -c given)
  wait_for_interrupt, \* input.wait_for_interrupt
  sensor,             \* input.sensor
  running_avg,        \* input.running_avg (-r takes 0 and 1 of [0,1] here)
  file_path,          \* input.file_path: "NULL", "alloc" or "freed" (dangling)
  frees,              \* acc_os_mem_free calls made on the file_path buffer
  interrupted,        \* the volatile sig_atomic_t flag
  rss,                \* radar stack: "inactive", "active", "deactivated"
  config,             \* configuration object: "none", "NULL", "valid", "destroyed"
  cfg_set,            \* what the builder set in it: << setter, value >> pairs
  handle,             \* service handle: "none", "NULL", "created", "active",
                      \*   "deactivated", "destroyed"
  calls,              \* provider calls made by execute_*, in order, each
                      \*   << function, whether it succeeded >>
  bin_count,          \* metadata.bin_count / metadata.data_length
  file,               \* FILE *file: "none", "stdout", "open", "closed"
  updates,            \* uint16_t updates
  service_status,     \* bool service_status of execute_* / main
  polled,             \* frames returned by the successful polls, in order
  out,                \* characters written to file, in order
  flushed,            \* length of out at the last fflush(stdout)
  linesAtInterrupt,   \* lines written when the flag was set (-1: not set)
  exit_status         \* "running" or the process's exit status

vars == << pc, parse_result, service_type, update_count, count_arg,
           wait_for_interrupt, sensor,
           running_avg, file_path, frees, interrupted, rss, config, cfg_set,
           handle, calls,
           bin_count, file, updates, service_status, polled, out, flushed,
           linesAtInterrupt, exit_status >>

inputVars == << service_type, update_count, count_arg, wait_for_interrupt,
               sensor, running_avg >>
runVars == << handle, calls, bin_count, file, updates, service_status,
              polled, out, flushed >>

\* ----------------------------------------------------------------- helpers
\* occurrences of x in the sequence s
Count(x, s) == Cardinality({ i \in 1..Len(s) : s[i] = x })

\* lines written so far: one "\n" ends each
Lines == Count("\n", out)

\* calls of provider function op made so far, and those of them that failed
Called(op) == Count(<< op, TRUE >>, calls) + Count(<< op, FALSE >>, calls)
Failed(op) == Count(<< op, FALSE >>, calls)
Polls == Called("get_next")

Digit(d) == << "0", "1", "2", "3", "4", "5", "6", "7", "8", "9" >>[d + 1]

\* printf's %u: the decimal digits of n, most significant first
RECURSIVE ToDec(_)
ToDec(n) ==
  IF n < 10 THEN << Digit(n) >>
  ELSE ToDec(n \div 10) \o << Digit(n % 10) >>

\* initialize_input
Init ==
  /\ pc = "start"
  /\ parse_result = "none"
  /\ service_type = INVALID_SERVICE
  /\ update_count = DEFAULT_UPDATE_COUNT
  /\ count_arg = -1
  /\ wait_for_interrupt = DEFAULT_WAIT_FOR_INTERRUPT
  /\ sensor = DEFAULT_SENSOR
  /\ running_avg = DEFAULT_RUNNING_AVG
  /\ file_path = "NULL"
  /\ frees = 0
  /\ interrupted = 0
  /\ rss = "inactive"
  /\ config = "none"
  /\ cfg_set = {}
  /\ handle = "none"
  /\ calls = << >>
  /\ bin_count = 0
  /\ file = "none"
  /\ updates = 0
  /\ service_status = FALSE
  /\ polled = << >>
  /\ out = << >>
  /\ flushed = 0
  /\ linesAtInterrupt = -1
  /\ exit_status = "running"

\* return <status> from main, or exit(<status>)
Exit(status) ==
  /\ pc' = "done"
  /\ exit_status' = status

\* interrupt_handler, run by the delivery of SIGINT once signal() has
\* installed it
interrupt_handler ==
  /\ pc \notin {"start", "done"}
  /\ interrupted = 0
  /\ interrupted' = 1
  /\ linesAtInterrupt' = Lines
  /\ UNCHANGED << pc, parse_result, inputVars, file_path, frees, rss,
                  config, cfg_set, runVars, exit_status >>

\* main up to parse_options: initialize_input, signal, acc_driver_hal_init
HalInit(ok) ==
  /\ pc = "start"
  /\ IF ok
       THEN pc' = "parse" /\ UNCHANGED exit_status
       ELSE Exit(EXIT_FAILURE)
  /\ UNCHANGED << parse_result, inputVars, file_path, frees, interrupted, rss,
                  config, cfg_set, runVars, linesAtInterrupt >>

\* acc_os_mem_free(input.file_path) under main's test input.file_path != NULL.
\* A freed pointer is still not NULL, so the test passes for it too.
PathAfterFree(p) == IF p = "NULL" THEN "NULL" ELSE "freed"
FreesAfterFree(p, n) == IF p = "NULL" THEN n ELSE n + 1

\* main's handling of parse_options() returning false
ParseFailed(why, path) ==
  /\ parse_result' = why
  /\ file_path' = PathAfterFree(path)
  /\ frees' = FreesAfterFree(path, frees)
  /\ Exit(EXIT_FAILURE)

\* parse_options, case 't'
OptServiceType(a) ==
  /\ pc = "parse"
  /\ IF a \in 0..2
       THEN /\ service_type' = << POWER_BIN, ENVELOPE, IQ >>[a + 1]
            /\ UNCHANGED << pc, parse_result, exit_status, file_path, frees >>
       ELSE /\ ParseFailed("bad_type", file_path)
            /\ UNCHANGED service_type
  /\ UNCHANGED << update_count, count_arg, wait_for_interrupt, sensor,
                  running_avg, interrupted, rss, config, cfg_set, runVars, linesAtInterrupt >>

\* the conversion of atoi()'s int to the uint16_t field
ToUint16(n) == n % UINT16_MOD

\* parse_options, case 'c'
OptSweepCount(a) ==
  /\ pc = "parse"
  /\ count_arg' = a
  /\ update_count' = ToUint16(a)
  /\ wait_for_interrupt' = FALSE
  /\ UNCHANGED << pc, parse_result, service_type, sensor, running_avg,
                  file_path, frees,
                  interrupted, rss, config, cfg_set, runVars, linesAtInterrupt,
                  exit_status >>

\* parse_options, case 'o': a failed allocation leaves file_path NULL
OptOut(allocated) ==
  /\ pc = "parse"
  /\ IF allocated
       THEN /\ file_path' = "alloc"
            /\ UNCHANGED << pc, parse_result, exit_status, frees >>
       ELSE ParseFailed("no_memory", "NULL")
  /\ UNCHANGED << inputVars, interrupted, rss, config, cfg_set, runVars,
                  linesAtInterrupt >>

\* parse_options, case 's': out of range ends the process with exit()
OptSensor(a) ==
  /\ pc = "parse"
  /\ IF a > 0 /\ a <= 4
       THEN /\ sensor' = a
            /\ UNCHANGED << pc, parse_result, exit_status >>
       ELSE /\ parse_result' = "out_of_range"
            /\ Exit(EXIT_FAILURE)
            /\ UNCHANGED sensor
  /\ UNCHANGED << service_type, update_count, count_arg, wait_for_interrupt,
                  running_avg, file_path, frees, interrupted, rss, config, cfg_set, runVars,
                  linesAtInterrupt >>

\* parse_options, case 'r': out of range ends the process with exit()
OptRunningAvg(r) ==
  /\ pc = "parse"
  /\ IF r >= 0 /\ r <= 1
       THEN /\ running_avg' = r
            /\ UNCHANGED << pc, parse_result, exit_status >>
       ELSE /\ parse_result' = "out_of_range"
            /\ Exit(EXIT_FAILURE)
            /\ UNCHANGED running_avg
  /\ UNCHANGED << service_type, update_count, count_arg, wait_for_interrupt,
                  sensor, file_path, frees, interrupted, rss, config, cfg_set,
                  runVars, linesAtInterrupt >>

\* parse_options, case 'h' and '?'
OptHelp ==
  /\ pc = "parse"
  /\ ParseFailed("help", file_path)
  /\ UNCHANGED << inputVars, interrupted, rss, config, cfg_set, runVars,
                  linesAtInterrupt >>

\* parse_options after the last option: the service type must have been given
ParseEnd ==
  /\ pc = "parse"
  /\ IF service_type = INVALID_SERVICE
       THEN ParseFailed("missing_type", file_path)
       ELSE /\ pc' = "rss"
            /\ parse_result' = "ok"
            /\ UNCHANGED << exit_status, file_path, frees >>
  /\ UNCHANGED << inputVars, interrupted, rss, config, cfg_set, runVars,
                  linesAtInterrupt >>

\* main: acc_rss_activate
RssActivate(ok) ==
  /\ pc = "rss"
  /\ IF ok
       THEN /\ rss' = "active"
            /\ pc' = "setup"
            /\ UNCHANGED exit_status
       ELSE /\ Exit(EXIT_FAILURE)
            /\ UNCHANGED rss
  /\ UNCHANGED << parse_result, inputVars, file_path, frees, interrupted, config, cfg_set,
                  runVars, linesAtInterrupt >>

\* Whether main returns when the builder gave NULL.  The POWER_BIN and
\* ENVELOPE cases return EXIT_FAILURE; the IQ case has no return statement
\* and falls through to execute_iq.
ReturnsOnNullConfig(type) == type \in {POWER_BIN, ENVELOPE}

\* set_up_power_bin: of the fields the model carries, the sensor
PowerBinSettings == { << "sensor", sensor >> }

\* set_up_envelope: the running average factor if one was given; no
\* acc_service_sensor_set
EnvelopeSettings ==
  IF running_avg >= 0 THEN { << "running_average_factor", running_avg >> }
  ELSE {}

\* set_up_iq: the output format; no acc_service_sensor_set and no use of
\* input->running_avg
IqSettings == { << "output_format", "FLOAT_COMPLEX" >> }

\* what set_up_<mode> sets in the configuration it created
Settings(type) ==
  CASE type = POWER_BIN -> PowerBinSettings
    [] type = ENVELOPE -> EnvelopeSettings
    [] type = IQ -> IqSettings

\* main: the switch on service_type up to the call of execute_*, with
\* set_up_power_bin / set_up_envelope / set_up_iq
SetUp(created) ==
  /\ pc = "setup"
  /\ cfg_set' = IF created THEN Settings(service_type) ELSE {}
  /\ IF created
       THEN /\ config' = "valid"
            /\ pc' = "execute"
            /\ UNCHANGED << file_path, frees, exit_status >>
       ELSE /\ config' = "NULL"
            /\ file_path' = PathAfterFree(file_path)
            /\ frees' = FreesAfterFree(file_path, frees)
            /\ IF ReturnsOnNullConfig(service_type)
                 THEN Exit(EXIT_FAILURE)
                 ELSE pc' = "execute" /\ UNCHANGED exit_status
  /\ UNCHANGED << parse_result, inputVars, interrupted, rss, runVars,
                  linesAtInterrupt >>

\* ------------------------------------------------------------- execute_*
\* execute_power_bin, execute_envelope and execute_iq are the same function
\* but for the metadata field, the poll and the rendering of a sample; the
\* actions below are that function, and service_type selects the differences.

\* return <status> from execute_*: main assigns it to service_status
Return(status) ==
  /\ service_status' = status
  /\ pc' = "after"

\* ServiceCreate with the NULL check left out: the metadata query and the
\* activation follow whatever acc_service_create gave
ServiceCreateUnchecked(created, n) ==
  /\ pc = "execute"
  /\ handle' = IF created THEN "created" ELSE "NULL"
  /\ calls' = calls \o << << "create", created >>, << "get_metadata", TRUE >> >>
  /\ bin_count' = n
  /\ pc' = "activate"
  /\ UNCHANGED service_status
  /\ UNCHANGED << parse_result, inputVars, file_path, frees, interrupted, rss,
                  config, cfg_set, file, updates, polled, out, flushed,
                  linesAtInterrupt, exit_status >>

\* acc_service_create, the NULL check and acc_service_*_get_metadata
ServiceCreate(created, n) ==
  /\ pc = "execute"
  /\ IF created
       THEN /\ handle' = "created"
            /\ calls' = calls \o << << "create", TRUE >>, << "get_metadata", TRUE >> >>
            /\ bin_count' = n
            /\ pc' = "activate"
            /\ UNCHANGED service_status
       ELSE /\ handle' = "NULL"
            /\ calls' = Append(calls, << "create", FALSE >>)
            /\ Return(FALSE)
            /\ UNCHANGED bin_count
  /\ UNCHANGED << parse_result, inputVars, file_path, frees, interrupted, rss,
                  config, cfg_set, file, updates, polled, out, flushed,
                  linesAtInterrupt, exit_status >>

\* ServiceActivate with the result of acc_service_activate left unchecked:
\* the run goes on to the sink and the loop whatever it was
ServiceActivateUnchecked(ok) ==
  /\ pc = "activate"
  /\ handle' = IF ok THEN "active" ELSE handle
  /\ calls' = Append(calls, << "activate", ok >>)
  /\ service_status' = ok
  /\ IF file_path = "NULL"
       THEN file' = "stdout" /\ pc' = "loop"
       ELSE file' = "none" /\ pc' = "fopen"
  /\ updates' = 0
  /\ UNCHANGED << parse_result, inputVars, file_path, frees, interrupted,
                  rss, config, cfg_set, bin_count, polled, out, flushed,
                  linesAtInterrupt, exit_status >>

\* acc_service_activate and the branch on its result; the else branch runs
\* on to acc_service_destroy and the return
ServiceActivate(ok) ==
  /\ pc = "activate"
  /\ IF ok
       THEN /\ handle' = "active"
            /\ calls' = Append(calls, << "activate", TRUE >>)
            /\ service_status' = TRUE
            /\ IF file_path = "NULL"
                 THEN file' = "stdout" /\ pc' = "loop"
                 ELSE file' = "none" /\ pc' = "fopen"
       ELSE /\ handle' = "destroyed"
            /\ calls' = calls \o << << "activate", FALSE >>, << "destroy", TRUE >> >>
            /\ Return(FALSE)
            /\ UNCHANGED file
  /\ updates' = 0
  /\ UNCHANGED << parse_result, inputVars, file_path, frees, interrupted, rss,
                  config, cfg_set, bin_count, polled, out, flushed, linesAtInterrupt,
                  exit_status >>

\* What execute_* does when fopen() gives NULL: "opening file failed" and
\* return false, straight from inside the if (service_status) block.
OpenFailed ==
  /\ Return(FALSE)
  /\ UNCHANGED << handle, calls, file >>

\* file = fopen(file_path, "w") when a path was given.  A dangling path
\* (freed by main before the call) is read all the same: the open may give a
\* file or fail, as for a valid path.
OpenFile(opened) ==
  /\ pc = "fopen"
  /\ IF opened
       THEN /\ file' = "open"
            /\ pc' = "loop"
            /\ UNCHANGED << handle, calls, service_status >>
       ELSE OpenFailed
  /\ UNCHANGED << parse_result, inputVars, file_path, frees, interrupted, rss,
                  config, cfg_set, bin_count, updates, polled, out, flushed,
                  linesAtInterrupt, exit_status >>

\* LoopCond with the unbounded disjunct left out
LoopCondCountOnly == updates < update_count

\* LoopCond with the flag left out of the unbounded disjunct
LoopCondIgnoresFlag == wait_for_interrupt \/ updates < update_count

\* LoopCond with the flag ending every loop, the bounded ones too
LoopCondFlagStopsAll ==
  interrupted = 0 /\ (wait_for_interrupt \/ updates < update_count)

\* the condition of the while loop
LoopCond == (wait_for_interrupt /\ interrupted = 0) \/ updates < update_count

\* The loop test.  When it fails the function runs on to fclose (if a path
\* was given), which writes out what the stream still buffers; the
\* deactivation that follows is Teardown.  A run enters at
\* most MaxPolls iterations: past that an unbounded run stands at the test
\* until SIGINT has set the flag (the bounded runs of the model never get
\* that far).
LoopTest ==
  /\ pc = "loop"
  /\ IF LoopCond
       THEN /\ Polls < MaxPolls
            /\ pc' = "poll"
            /\ UNCHANGED << file, flushed >>
       ELSE /\ pc' = "teardown"
            /\ file' = IF file_path # "NULL" THEN "closed" ELSE file
            /\ flushed' = IF file_path # "NULL" THEN Len(out) ELSE flushed
  /\ UNCHANGED << parse_result, inputVars, file_path, frees, interrupted, rss,
                  config, cfg_set, handle, calls, bin_count, updates, service_status,
                  polled, out, linesAtInterrupt, exit_status >>

\* (unsigned int)(envelope_data[index] + 0.5f): the uint16_t sample becomes a
\* float, exactly, half is added, exactly, and the cast drops the fraction
EnvelopeValue(x) == (2 * x + 1) \div 2

\* PRIfloat with ACC_LOG_FLOAT_TO_INTEGER (macros of acc_log.h) prints sign,
\* whole part, a point and three decimals; the synthetic IQ samples are
\* non-negative whole numbers
RenderFloat(x) == ToDec(x) \o << ".", "0", "0", "0" >>

\* the fprintf of one sample
RenderSample(type, x) ==
  CASE type = POWER_BIN -> ToDec(x) \o << "\t" >>
    [] type = ENVELOPE -> ToDec(EnvelopeValue(x)) \o << "\t" >>
    [] type = IQ -> RenderFloat(x[1]) \o << "\t" >> \o RenderFloat(x[2])
                      \o << "\t" >>

\* RenderFrom with the loop bound one short: the last sample is not printed
RECURSIVE RenderFromOneShort(_, _, _)
RenderFromOneShort(type, f, i) ==
  IF i >= Len(f) THEN << >>
  ELSE RenderSample(type, f[i]) \o RenderFromOneShort(type, f, i + 1)

\* the for loop over index = 0 .. count-1, from index i on
RECURSIVE RenderFrom(_, _, _)
RenderFrom(type, f, i) ==
  IF i > Len(f) THEN << >>
  ELSE RenderSample(type, f[i]) \o RenderFrom(type, f, i + 1)

\* the text one successful poll writes
RenderLine(type, f) == RenderFrom(type, f, 1) \o << "\n" >>

\* What the provider can deliver in a poll: uint16_t samples, or complex
\* samples for IQ
ProviderFrames(type, n) ==
  IF type = IQ
    THEN { [i \in 1..n |-> << f[i], f[n + 1 - i] >>] : f \in Frames(n) }
    ELSE Frames(n)

\* PollFailed with the loop going on to its next iteration instead of
\* returning: the failed poll is retried
PollFailedRetries ==
  /\ service_status' = FALSE
  /\ pc' = "loop"
  /\ flushed' = IF file = "stdout" THEN Len(out) ELSE flushed
  /\ UNCHANGED << handle, file, updates, polled, out >>

\* What the loop body does when the poll fails: the message, fflush(stdout)
\* and return false.
PollFailed ==
  /\ Return(FALSE)
  /\ flushed' = IF file = "stdout" THEN Len(out) ELSE flushed
  /\ UNCHANGED << handle, file, updates, polled, out >>

\* FlushLine with the fflush left out
FlushLineNever(len) == flushed

\* if (file_path == NULL) fflush(stdout), after the line that brought the
\* text to len characters: how much of the text has left the buffer
FlushLine(len) == IF file_path = "NULL" THEN len ELSE flushed

\* updates++ on a uint16_t, made only when !wait_for_interrupt
UpdatesAfterPoll == IF wait_for_interrupt THEN updates
                    ELSE (updates + 1) % UINT16_MOD

\* one iteration of the loop body: acc_service_*_get_next, then either the
\* line and the count, or the failure exit
GetNext(ok, f) ==
  /\ pc = "poll"
  /\ calls' = Append(calls, << "get_next", ok >>)
  /\ IF ok
       THEN /\ polled' = Append(polled, f)
            /\ out' = out \o RenderLine(service_type, f)
            /\ flushed' = FlushLine(Len(out'))
            /\ updates' = UpdatesAfterPoll
            /\ service_status' = TRUE
            /\ pc' = "loop"
            /\ UNCHANGED << handle, file >>
       ELSE PollFailed
  /\ UNCHANGED << parse_result, inputVars, file_path, frees, interrupted, rss,
                  config, cfg_set, bin_count, linesAtInterrupt, exit_status >>

\* Teardown with the result of acc_service_deactivate dropped: the status
\* of the last poll is returned
TeardownIgnoresResult(ok) ==
  /\ pc = "teardown"
  /\ handle' = "destroyed"
  /\ calls' = calls \o << << "deactivate", ok >>, << "destroy", TRUE >> >>
  /\ Return(service_status)
  /\ UNCHANGED << parse_result, inputVars, file_path, frees, interrupted, rss,
                  config, cfg_set, bin_count, file, updates, polled, out, flushed,
                  linesAtInterrupt, exit_status >>

\* Teardown with the two calls swapped: the handle is destroyed, then
\* deactivated
TeardownDestroysFirst(ok) ==
  /\ pc = "teardown"
  /\ handle' = "destroyed"
  /\ calls' = calls \o << << "destroy", TRUE >>, << "deactivate", ok >> >>
  /\ Return(ok)
  /\ UNCHANGED << parse_result, inputVars, file_path, frees, interrupted, rss,
                  config, cfg_set, bin_count, file, updates, polled, out, flushed,
                  linesAtInterrupt, exit_status >>

\* after the loop: acc_service_deactivate, acc_service_destroy, return
Teardown(ok) ==
  /\ pc = "teardown"
  /\ handle' = "destroyed"
  /\ calls' = calls \o << << "deactivate", ok >>, << "destroy", TRUE >> >>
  /\ Return(ok)
  /\ UNCHANGED << parse_result, inputVars, file_path, frees, interrupted, rss,
                  config, cfg_set, bin_count, file, updates, polled, out, flushed,
                  linesAtInterrupt, exit_status >>

\* Epilogue with the test of service_status left out
EpilogueIgnoresStatus(aborts) ==
  /\ pc = "after"
  /\ file_path' = PathAfterFree(file_path)
  /\ frees' = FreesAfterFree(file_path, frees)
  /\ IF aborts
       THEN /\ file_path = "freed"
            /\ Exit(ABORTED)
            /\ UNCHANGED << config, rss >>
       ELSE /\ config' = IF config = "valid" THEN "destroyed" ELSE config
            /\ rss' = "deactivated"
            /\ Exit(EXIT_SUCCESS)
  /\ UNCHANGED << parse_result, inputVars, interrupted, cfg_set, runVars,
                  linesAtInterrupt >>

\* main after execute_* has returned: free the path, test the status,
\* destroy the configuration, deactivate the radar stack.  Freeing the
\* buffer a second time is undefined: the allocator aborts the process or
\* the call goes unnoticed.
Epilogue(aborts) ==
  /\ pc = "after"
  /\ file_path' = PathAfterFree(file_path)
  /\ frees' = FreesAfterFree(file_path, frees)
  /\ IF aborts
       THEN /\ file_path = "freed"
            /\ Exit(ABORTED)
            /\ UNCHANGED << config, rss >>
       ELSE IF ~service_status
         THEN /\ Exit(EXIT_FAILURE)
              /\ UNCHANGED << config, rss >>
         ELSE /\ config' = IF config = "valid" THEN "destroyed" ELSE config
              /\ rss' = "deactivated"
              /\ Exit(EXIT_SUCCESS)
  /\ UNCHANGED << parse_result, inputVars, interrupted, cfg_set, runVars,
                  linesAtInterrupt >>

Next ==
  \/ interrupt_handler
  \/ \E ok \in BOOLEAN : HalInit(ok)
  \/ \E a \in TypeArgs : OptServiceType(a)
  \/ \E a \in CountArgs : OptSweepCount(a)
  \/ \E allocated \in BOOLEAN : OptOut(allocated)
  \/ \E a \in SensorArgs : OptSensor(a)
  \/ \E r \in RunningAvgArgs : OptRunningAvg(r)
  \/ OptHelp
  \/ ParseEnd
  \/ \E ok \in BOOLEAN : RssActivate(ok)
  \/ \E created \in BOOLEAN : SetUp(created)
  \/ \E created \in BOOLEAN, n \in 1..MaxBins : ServiceCreate(created, n)
  \/ \E ok \in BOOLEAN : ServiceActivate(ok)
  \/ \E opened \in BOOLEAN : OpenFile(opened)
  \/ LoopTest
  \/ \E ok \in BOOLEAN, f \in ProviderFrames(service_type, bin_count) :
       GetNext(ok, f)
  \/ \E ok \in BOOLEAN : Teardown(ok)
  \/ \E aborts \in BOOLEAN : Epilogue(aborts)

Spec == Init /\ [][Next]_vars

\* the steps of main, parse_options and execute_*: everything but the
\* signal
Program ==
  \/ \E ok \in BOOLEAN : HalInit(ok)
  \/ \E a \in TypeArgs : OptServiceType(a)
  \/ \E a \in CountArgs : OptSweepCount(a)
  \/ \E allocated \in BOOLEAN : OptOut(allocated)
  \/ \E a \in SensorArgs : OptSensor(a)
  \/ \E r \in RunningAvgArgs : OptRunningAvg(r)
  \/ OptHelp
  \/ ParseEnd
  \/ \E ok \in BOOLEAN : RssActivate(ok)
  \/ \E created \in BOOLEAN : SetUp(created)
  \/ \E created \in BOOLEAN, n \in 1..MaxBins : ServiceCreate(created, n)
  \/ \E ok \in BOOLEAN : ServiceActivate(ok)
  \/ \E opened \in BOOLEAN : OpenFile(opened)
  \/ LoopTest
  \/ \E ok \in BOOLEAN, f \in ProviderFrames(service_type, bin_count) :
       GetNext(ok, f)
  \/ \E ok \in BOOLEAN : Teardown(ok)
  \/ \E aborts \in BOOLEAN : Epilogue(aborts)

\* The program runs on a processor that keeps executing it and every call
\* it makes returns; SIGINT is delivered to a run that is still going on.
FairSpec == Spec /\ WF_vars(Program) /\ WF_vars(interrupt_handler)

\* ------------------------------------------------------------ observations
\* execute_* has been called and has returned to main
Returned == pc \in {"after", "done"} /\ calls # << >>

\* acc_service_create gave a handle
Created == Called("create") = 1 /\ Failed("create") = 0

\* acc_service_activate succeeded
Activated == Called("activate") = 1 /\ Failed("activate") = 0

\* the polling loop was reached: activation succeeded and the sink is there
LoopEntered == Activated /\ file # "none"

\* the polling loop was left through its test (not by a return inside it)
LoopExited == pc = "teardown" \/ Called("deactivate") = 1

\* the polling loop was left, one way or the other
LoopLeft == LoopEntered /\ pc \in {"teardown", "after", "done"}

\* fopen gave a file in this run
FileOpened == file \in {"open", "closed"}

\* ------------------------------------------------------------------ claims

\* C1: whenever acc_service_create returned a non-null handle, by the time
\* execute_* returns acc_service_destroy has been called on it exactly once,
\* whichever later stage failed.
\* The code returns from inside the if (service_status) block when fopen
\* fails and when a poll fails, and those returns skip acc_service_destroy.
C1_DestroyedOnceOnReturn ==
  (Returned /\ Created) => Called("destroy") = 1

\* C2: a bounded run given -c N, N a positive integer, whose create, activate
\* and polls all succeed makes exactly N polls and writes exactly N lines
\* before the loop ends.
\* The code stores N in a uint16_t, so N = 65536 runs as a count of 0.
C2_BoundedRunPollsN ==
  (count_arg > 0 /\ LoopExited /\ Failed("get_next") = 0)
    => (Polls = count_arg /\ Lines = count_arg)

C4_NullConfigEndsRun ==
  config = "NULL" => (calls = << >> /\ exit_status # EXIT_SUCCESS)

\* C5: if the K-th poll fails, all earlier ones having succeeded, exactly K-1
\* lines have been written when the run terminates, and no poll is made
\* after the failed one.
C5_FailedPollEndsRun ==
  Failed("get_next") > 0
    => /\ Failed("get_next") = 1
       /\ calls[Len(calls)] = << "get_next", FALSE >>
       /\ Lines = Polls - 1
       /\ Len(polled) = Polls - 1
       /\ pc \in {"after", "done"}

\* the third poll of a run failed, two lines stand written, the run is over
C5_Witness ==
  /\ pc = "done"
  /\ Failed("get_next") = 1
  /\ Polls = 3
  /\ Lines = 2

\* C6: in an unbounded run, once the SIGINT handler has set the flag, at most
\* one further frame is written before the polling loop exits.
C6_AtMostOneFrameAfterInterrupt ==
  (wait_for_interrupt /\ interrupted = 1)
    => /\ Lines - linesAtInterrupt <= 1
       /\ Len(polled) - linesAtInterrupt <= 1

\* the flag was set between the loop test and the poll; the poll in flight
\* wrote its line and the loop was then left
C6_Witness ==
  /\ wait_for_interrupt
  /\ interrupted = 1
  /\ linesAtInterrupt = 1
  /\ Lines = 2
  /\ pc = "teardown"

\* C7: if acc_service_activate fails, no poll is made, no line is written,
\* acc_service_deactivate is not called, execute_* returns false and the
\* process exits with failure status.
C7_ActivateFailure ==
  Failed("activate") > 0
    => /\ Polls = 0
       /\ Lines = 0
       /\ Called("deactivate") = 0
       /\ pc \in {"after", "done"}
       /\ ~service_status
       /\ pc = "done" => exit_status \in {EXIT_FAILURE, ABORTED}

\* activation failed and the process has exited with EXIT_FAILURE
C7_Witness ==
  /\ Failed("activate") = 1
  /\ pc = "done"
  /\ exit_status = EXIT_FAILURE

\* C8: every output file a run opened is closed before execute_* returns, on
\* every exit path, the failed poll included.
\* The return in the loop's else branch comes before the fclose.
C8_OpenedFileClosedOnReturn ==
  (Returned /\ FileOpened) => file = "closed"

\* C9 as stated: the exit status is failure whenever the configuration build
\* fails, activation fails, a poll fails or the service type is missing or
\* unsupported, and it is success in every other run.
\* Other failures end the run with EXIT_FAILURE too (a failing deactivate, a
\* NULL handle, an output file that does not open, ...).
C9_ExitStatusFourCauses ==
  pc = "done"
    => ((exit_status # EXIT_SUCCESS)
          <=> \/ config = "NULL"
              \/ Failed("activate") > 0
              \/ Failed("get_next") > 0
              \/ parse_result \in {"bad_type", "missing_type"})

\* the stages whose failure main or execute_* answers with a failure return
StageFailed ==
  \/ parse_result = "none"                         \* acc_driver_hal_init
  \/ parse_result \notin {"none", "ok"}            \* parse_options
  \/ rss = "inactive"                              \* acc_rss_activate
  \/ (config = "NULL" /\ service_type # IQ)        \* builder, checked modes
  \/ Failed("create") > 0
  \/ Failed("activate") > 0
  \/ (Activated /\ file = "none")                  \* fopen
  \/ Failed("get_next") > 0
  \/ Failed("deactivate") > 0

\* C9 as amended: the exit status is failure whenever HAL initialisation,
\* option parsing (service type missing or unsupported, help, allocation
\* failure, value out of range), radar stack activation, the configuration
\* build in power-bin or envelope mode, acc_service_create, activation, the
\* opening of the output file, a poll or deactivation fails.  In every other
\* run it is success, except that the IQ run whose builder returned NULL
\* with an output path given frees the path twice and may be aborted by the
\* allocator instead.
C9_ExitStatusAllCauses ==
  pc = "done"
    => /\ StageFailed => exit_status # EXIT_SUCCESS
       /\ ~StageFailed
            => \/ exit_status = EXIT_SUCCESS
               \/ (exit_status = ABORTED /\ frees = 2 /\ config = "NULL")

\* every poll succeeded, deactivation failed, and the process reports failure
C9_Witness ==
  /\ pc = "done"
  /\ Len(polled) = 2
  /\ Failed("get_next") = 0
  /\ Failed("deactivate") = 1
  /\ exit_status = EXIT_FAILURE

\* Reading the output back by splitting it: on newlines into lines, each
\* line on tabs into fields, each field a decimal number.  A text whose last
\* line has no newline, a line whose last field has no tab, or a field that
\* is not a plain decimal number (empty, a stray character, a leading zero)
\* reads as BadText.
BadText == << << -1 >> >>
IsDigit(c) == \E d \in 0..9 : Digit(d) = c
DigitValue(c) == CHOOSE d \in 0..9 : Digit(d) = c

SepPos(s, sep) == { i \in 1..Len(s) : s[i] = sep }
NthSep(s, sep, k) ==
  CHOOSE i \in SepPos(s, sep) :
    Cardinality({ j \in SepPos(s, sep) : j <= i }) = k
Terminated(s, sep) == s = << >> \/ s[Len(s)] = sep
\* the pieces of s that end at each sep, without the sep
Pieces(s, sep) ==
  [ k \in 1..Cardinality(SepPos(s, sep)) |->
      SubSeq(s, IF k = 1 THEN 1 ELSE NthSep(s, sep, k - 1) + 1,
                NthSep(s, sep, k) - 1) ]

IsNumber(t) ==
  /\ t # << >>
  /\ \A i \in 1..Len(t) : IsDigit(t[i])
  /\ Len(t) > 1 => t[1] # "0"
RECURSIVE ReadNumber(_)
ReadNumber(t) ==
  IF t = << >> THEN 0
  ELSE 10 * ReadNumber(SubSeq(t, 1, Len(t) - 1)) + DigitValue(t[Len(t)])

GoodLine(l) ==
  /\ l # << >>
  /\ Terminated(l, "\t")
  /\ \A k \in 1..Cardinality(SepPos(l, "\t")) : IsNumber(Pieces(l, "\t")[k])
ReadLine(l) ==
  [ k \in 1..Cardinality(SepPos(l, "\t")) |-> ReadNumber(Pieces(l, "\t")[k]) ]

ReadBack(s) ==
  IF /\ Terminated(s, "\n")
     /\ \A k \in 1..Cardinality(SepPos(s, "\n")) : GoodLine(Pieces(s, "\n")[k])
    THEN [ k \in 1..Cardinality(SepPos(s, "\n")) |-> ReadLine(Pieces(s, "\n")[k]) ]
    ELSE BadText

ExampleFrames == << << 1, 2, 3 >>, << 4, 5, 6 >> >>
ExampleText ==
  << "1", "\t", "2", "\t", "3", "\t", "\n",
     "4", "\t", "5", "\t", "6", "\t", "\n" >>

\* C10: in power-bin and envelope mode each successful poll produces exactly
\* one line: the frame's samples in index order, each as a decimal unsigned
\* integer followed by one tab, then a newline; the lines are in the order
\* of the polls.  Frames [1,2,3] then [4,5,6] give "1\t2\t3\t\n" and
\* "4\t5\t6\t\n".
C10_LinesRenderFrames ==
  service_type \in {POWER_BIN, ENVELOPE}
    => /\ ReadBack(out) = polled
       /\ polled = ExampleFrames => out = ExampleText

\* the example: power-bin mode, 3 bins, -c 2, both polls made
C10_Witness ==
  /\ service_type = POWER_BIN
  /\ count_arg = 2
  /\ bin_count = 3
  /\ polled = ExampleFrames
  /\ out = ExampleText
  /\ pc = "done"

\* the setters the builder applied, by name
SettersApplied == { st[1] : st \in cfg_set }

\* C11: in every mode the configuration the builder returns has its sensor
\* id set to the sensor selected in the input (the -s value, or the default).
\* Only set_up_power_bin calls acc_service_sensor_set; set_up_envelope and
\* set_up_iq leave the configuration's sensor at the provider's default.
C11_SensorSetInEveryMode ==
  config = "valid" => << "sensor", sensor >> \in cfg_set

\* C12: a running-average factor given on the command line is applied to the
\* configuration in envelope mode and in IQ mode, and none is applied when it
\* was not given or in power-bin mode.
\* set_up_iq never reads input->running_avg.
C12_RunningAvgAppliedWhenGiven ==
  config = "valid"
    => /\ (running_avg >= 0 /\ service_type \in {ENVELOPE, IQ})
            => << "running_average_factor", running_avg >> \in cfg_set
       /\ (running_avg < 0 \/ service_type = POWER_BIN)
            => "running_average_factor" \notin SettersApplied

\* C13: every handle that was activated is deactivated, exactly once, before
\* the run ends, on every exit path: the normal loop exit, a failed poll, a
\* failure to open the output file after activation.
\* The returns taken on a failed fopen and on a failed poll skip
\* acc_service_deactivate.
C13_ActivatedIsDeactivated ==
  (Returned /\ Activated) => Called("deactivate") = 1

\* C14: in a bounded run (-c given) the cancellation flag has no effect on
\* the polling loop: whenever and whether SIGINT sets it, a poll is made only
\* while updates is short of the limit, every successful poll counts and
\* writes one line, and the loop is left only with updates at the limit or
\* by a failed poll.
C14_BoundedRunIgnoresFlag ==
  (~wait_for_interrupt /\ LoopEntered)
    => /\ updates = Polls - Failed("get_next")
       /\ Lines = updates
       /\ pc = "poll" => updates < update_count
       /\ LoopExited => (updates = update_count /\ Failed("get_next") = 0)
       /\ (LoopLeft /\ ~LoopExited) => Failed("get_next") = 1

\* a bounded run of two frames, interrupted before its first line, has
\* written both lines and left the loop through its test
C14_Witness ==
  /\ count_arg = 2
  /\ linesAtInterrupt = 0
  /\ Lines = 2
  /\ LoopExited

\* C15: when the loop was left through its test (activation succeeded, the
\* file if any opened, every poll succeeded), execute_* returns the result of
\* acc_service_deactivate, and a failed deactivate makes the run fail.
C15_ReturnsDeactivateResult ==
  (Returned /\ Called("deactivate") = 1)
    => /\ service_status = (Failed("deactivate") = 0)
       /\ (pc = "done" /\ Failed("deactivate") = 1)
             => exit_status # EXIT_SUCCESS

\* two polls succeeded, acc_service_deactivate failed, and execute_* has
\* returned false
C15_Witness ==
  /\ pc = "after"
  /\ Polls = 2
  /\ Failed("get_next") = 0
  /\ Failed("deactivate") = 1
  /\ ~service_status

\* C16: when acc_service_create gives NULL, execute_* returns false and has
\* made no other provider call: no metadata query, activate, get_next,
\* deactivate or destroy.
C16_NullHandleReturnsAtOnce ==
  Failed("create") > 0
    => /\ calls = << << "create", FALSE >> >>
       /\ pc \in {"after", "done"}
       /\ ~service_status

\* acc_service_create gave NULL and the process has ended
C16_Witness ==
  /\ Failed("create") = 1
  /\ pc = "done"
  /\ exit_status = EXIT_FAILURE

\* C17: if every provider call returns and SIGINT is eventually delivered to
\* an unbounded run, a run that has reached the polling loop eventually
\* leaves it and execute_* returns; an unbounded run does so once the flag
\* is set.
C17_LoopIsLeft ==
  (pc \in {"loop", "poll"}) ~> Returned

\* an unbounded run polled, was interrupted, left the loop through its test
\* and has returned
C17_Witness ==
  /\ wait_for_interrupt
  /\ interrupted = 1
  /\ Polls >= 1
  /\ Called("deactivate") = 1
  /\ Returned

\* C18: with no output path (the sink is stdout) every written line has been
\* flushed before the next poll is issued; with an output path nothing is
\* flushed line by line, the text leaves the buffer at fclose.
C18_StdoutFlushedPerLine ==
  /\ file = "stdout" => flushed = Len(out)
  /\ file = "open" => flushed = 0

\* two lines on stdout, both flushed, and the third poll about to be made
C18_Witness ==
  /\ file = "stdout"
  /\ pc = "poll"
  /\ Lines = 2
  /\ flushed = Len(out)
  /\ flushed > 0

\* provider calls made before the i-th
Before(i) == { calls[j] : j \in 1..(i - 1) }
BeforeOps(i) == { calls[j][1] : j \in 1..(i - 1) }

\* C19: provider calls keep the lifecycle order: get_next only on a handle
\* created and successfully activated and not yet deactivated or destroyed,
\* deactivate only on an activated handle, and no call after
\* acc_service_destroy.
C19_LifecycleOrder ==
  \A i \in 1..Len(calls) :
    /\ calls[i][1] = "get_next"
          => /\ << "create", TRUE >> \in Before(i)
             /\ << "activate", TRUE >> \in Before(i)
             /\ BeforeOps(i) \cap {"deactivate", "destroy"} = {}
    /\ calls[i][1] = "deactivate"
          => /\ << "activate", TRUE >> \in Before(i)
             /\ BeforeOps(i) \cap {"deactivate", "destroy"} = {}
    /\ calls[i][1] = "destroy" => i = Len(calls)

\* a whole lifecycle: create, metadata, activate, two polls, deactivate,
\* destroy
C19_Witness ==
  /\ Len(calls) = 7
  /\ Polls = 2
  /\ calls[6][1] = "deactivate"
  /\ calls[7] = << "destroy", TRUE >>

\* C20: on every path through main the buffer of the output path is freed
\* at most once and is never passed to execute_* or read after it was freed.
\* The IQ case of main frees it when set_up_iq gives NULL, then calls
\* execute_iq with it all the same (fopen reads it) and frees it again.
C20_PathFreedOnceNeverUsedAfter ==
  /\ frees <= 1
  /\ pc \in {"execute", "activate", "fopen", "loop", "poll", "teardown",
             "after"}
       => file_path # "freed"

\* C21: when main returns, every configuration a builder created has been
\* destroyed (once) and the radar stack activated by acc_rss_activate has
\* been deactivated, on every exit path, the one where execute_* returns
\* false included.
\* The code returns EXIT_FAILURE straight after a false execute_* and after a
\* NULL configuration: the configuration destroy and acc_rss_deactivate are
\* reached only on the successful path.
C21_ReleasedWhenMainReturns ==
  (pc = "done" /\ exit_status \in {EXIT_SUCCESS, EXIT_FAILURE})
    => (config # "valid" /\ rss # "active")

====
